---- MODULE Spec2Model ----
(***************************************************************************)
(* Model of the automatic wallpaper rotation hook useAutoWallpaper         *)
(* (hooks/useAutoWallpaper), one hook instance, together with the backend  *)
(* collaborators of lib/wallpaper it awaits, the HomePage that hosts the   *)
(* hook (loadInitialData, handleFetchNew, handleSetWallpaper) and the      *)
(* SettingsPage that writes the settings (loadSettings, handleSave).       *)
(* Every await is a point where other callbacks of the single JavaScript   *)
(* thread may run, so every async function is split into one action per    *)
(* await.                                                                  *)
(***************************************************************************)
EXTENDS Integers, Sequences, FiniteSets, TLC

\* ------------------------------------------------------------------ bounds
MaxValue == 2       \* interval_value ranges over 1..MaxValue
MaxImages == 2      \* fetchRandomImage answers with an image of 1..MaxImages
MaxTasks == 3       \* mount reads plus startAutoChange calls over a run
MaxSlots == 2       \* changeWallpaper invocations whose outcome is kept
MaxStoredValue == 4 \* interval_value of the settings found at startup: 1..MaxStoredValue
MaxLoads == 2       \* loadInitialData calls in flight at a time

\* ------------------------------------------------------------- data model
Null == "null"

Images == 1..MaxImages

\* WallpaperSettings as stored by the backend (collection_id plays no part
\* in the hook and is left out): auto-change on with a key at each interval
\* value, switched off, and on without a key.
SettingsChoices ==
    {[auto_change |-> TRUE, api_key |-> "k", interval_value |-> v, interval_unit |-> "hours"] :
        v \in 1..MaxValue}
    \cup {[auto_change |-> FALSE, api_key |-> "k", interval_value |-> 1, interval_unit |-> "hours"],
          [auto_change |-> TRUE, api_key |-> "", interval_value |-> 1, interval_unit |-> "hours"]}

\* interval_unit as the backend may hand it out: the hook casts whatever
\* string arrives to IntervalUnit
StoredUnits == {"minutes", "hours", "days", "weeks", "fortnights"}

\* the settings the store may hold when the application starts
StoredSettings ==
    SettingsChoices
    \cup {[auto_change |-> TRUE, api_key |-> "k", interval_value |-> v, interval_unit |-> u] :
            v \in 1..MaxStoredValue, u \in StoredUnits}

\* `image: UnsplashImage | null` when null; image ids are 1..MaxImages
NoImage == 0

\* CurrentWallpaper before any wallpaper was saved
NoWallpaper == [image |-> NoImage, local_path |-> <<>>]

\* the file set_wallpaper stores the image of id img in
PathOf(img) == <<"file", img>>

multipliers ==
    [minutes |-> 60 * 1000,
     hours   |-> 60 * 60 * 1000,
     days    |-> 24 * 60 * 60 * 1000,
     weeks   |-> 7 * 24 * 60 * 60 * 1000]

\* A JavaScript number holding a count of milliseconds, or NaN.  The products
\* of getIntervalMs pass 2^31, which the integers of the checker do not, so a
\* number is kept as its thousands k and the rest u below 1000: 1000 * k + u.
Num(k, u) == [nan |-> FALSE, k |-> k, u |-> u]

NaN == [nan |-> TRUE, k |-> 0, u |-> 0]

\* value * m of JavaScript, exact below 2^53
Times(value, m) ==
    LET low == value * (m % 1000)
    IN Num(value * (m \div 1000) + low \div 1000, low % 1000)

Less(a, b) == a.k < b.k \/ (a.k = b.k /\ a.u < b.u)

\* a - b for a >= b
Minus(a, b) ==
    IF a.u >= b.u THEN Num(a.k - b.k, a.u - b.u)
                  ELSE Num(a.k - b.k - 1, a.u + 1000 - b.u)

\* value * multipliers[unit]; a unit outside the table reads undefined and
\* the product is NaN
getIntervalMs(value, unit) ==
    IF unit \in DOMAIN multipliers THEN Times(value, multipliers[unit]) ELSE NaN

Two31 == Num(2147483, 648)
Two32 == Num(4294967, 296)

RECURSIVE Modulo32(_)
Modulo32(a) == IF Less(a, Two32) THEN a ELSE Modulo32(Minus(a, Two32))

\* The period window.setInterval runs a timer with: its timeout argument is a
\* 32-bit signed `long`, so the number is taken modulo 2^32 (NaN as 0) and
\* read as signed, and a negative timeout counts as 0.
TimeoutOf(ms) ==
    IF ms.nan THEN Num(0, 0)
    ELSE LET w == Modulo32(ms) IN IF Less(w, Two31) THEN w ELSE Num(0, 0)

VARIABLES
    settings,      \* the stored WallpaperSettings (backend)
    record,        \* the stored CurrentWallpaper (backend)
    os,            \* the image the OS shows as wallpaper
    lifecycle,     \* "unmounted", "mounted", "torn" (after the final cleanup)
    intervalRef,   \* intervalRef.current: 0 for null, else a timer id
    isRunningRef,  \* isRunningRef.current
    timers,        \* the active window.setInterval timers: [id, ms, period]
    tasks,         \* settings reads of the mount effect and startAutoChange calls
    rots,          \* the changeWallpaper invocations, the latest per slot
    disarmed,      \* history: stopAutoChange ran and startAutoChange was not called since
    everStopped,   \* history: stopAutoChange ran at least once
    page,          \* SettingsPage: its state and the handleSave in flight
    home,          \* HomePage: its useState values
    loads,         \* the loadInitialData calls in flight
    manual         \* the handleSetWallpaper of HomePage, the latest one

vars == <<settings, record, os, lifecycle, intervalRef, isRunningRef, timers,
          tasks, rots, disarmed, everStopped, page, home, loads, manual>>

homeVars == <<home, loads, manual>>
uiVars == <<page, homeVars>>

backendVars == <<settings, record, os>>
timerVars == <<intervalRef, timers>>
rotVars == <<isRunningRef, rots>>
histVars == <<disarmed, everStopped>>

\* ---------------------------------------------------------------- helpers
\* `settings.auto_change && settings.api_key` of the mount effect, and the
\* negation of `!settings.auto_change || !settings.api_key` of startAutoChange
Enabled(s) == s.auto_change /\ s.api_key # ""

\* a rotation is executing while it is between the guard and the finally
Running(r) == r.pc \notin {"idle", "skipped", "done"}

\* clearInterval(id)
clearInterval(ts, id) == {t \in ts : t.id # id}

\* a get_settings call: of the mount effect ("mount") or of startAutoChange
\* ("arm"); val is the answer while the continuation has not run; res is
\* what the continuation did; fresh is history: the stored settings were not
\* written since the call was issued
NewTask(kind) ==
    [kind |-> kind, st |-> "pending", val |-> Null, res |-> "", fresh |-> TRUE]

\* the continuation of task i ran with result res (or will never run)
Done(ts, i, res) == [ts EXCEPT ![i].st = "done", ![i].val = Null, ![i].res = res]

\* mount reads whose continuation may still call startAutoChange
OpenMounts == Cardinality({i \in DOMAIN tasks : tasks[i].kind = "mount" /\ tasks[i].st # "done"})

\* n more calls fit the bound (the effect needs two: its read and the
\* startAutoChange its continuation may call)
Room(n) == Len(tasks) + OpenMounts + n <= MaxTasks

\* useRef(false), and a slot no invocation has used yet
IdleRotation ==
    [pc |-> "idle", calls |-> <<>>, via |-> "", overlapped |-> FALSE,
     sawEnabled |-> Null, img |-> NoImage, applied |-> FALSE, saved |-> FALSE,
     rejected |-> "", observed |-> 0, reported |-> 0, cut |-> FALSE]

\* history: the hook was disarmed, or auto-change was switched off, while
\* the rotation was executing past its settings check
MarkCut(rs) ==
    [k \in DOMAIN rs |->
        IF Running(rs[k]) /\ rs[k].sawEnabled = "enabled"
        THEN [rs[k] EXCEPT !.cut = TRUE] ELSE rs[k]]

\* SettingsPage while the route /settings is not shown.  rejected is
\* history: the call of handleSave that rejected, "" when none did
ClosedPage ==
    [pc |-> "closed", load |-> "", loaded |-> Null,
     apiKey |-> "", selectedInterval |-> <<>>, autoChange |-> FALSE,
     hasChanges |-> FALSE, isSaving |-> FALSE,
     newSettings |-> Null, calls |-> <<>>, outcome |-> "", rejected |-> ""]

\* HomePage before its first render has loaded anything.  host tells whether
\* HomePage is the component that uses the hook (its observer is then
\* loadInitialData) or the hook is looked at with an observer of any kind.
NewHome(host) ==
    [host |-> host, currentImage |-> NoImage, previewImage |-> NoImage,
     localPath |-> <<>>, apiKey |-> "", isLoading |-> FALSE,
     isSettingWallpaper |-> FALSE, error |-> FALSE]

\* no handleSetWallpaper was started yet; everFailed is history: some
\* handleSetWallpaper ended in its catch
IdleManual ==
    [pc |-> "idle", img |-> NoImage, applied |-> FALSE, saved |-> FALSE,
     rejected |-> "", everFailed |-> FALSE]

\* the part of the state outside the hook and the backend
InitPages(host) ==
    /\ page = ClosedPage
    /\ home = NewHome(host)
    /\ loads = <<>>
    /\ manual = IdleManual

\* a loadInitialData call whose reads are not answered yet
NewLoad == [wallpaper |-> NoWallpaper, wallpaperRead |-> FALSE,
            apiKey |-> "", settingsRead |-> FALSE]

\* ------------------------------------------------------------------- Init
Init ==
    /\ settings \in SettingsChoices
    /\ record = NoWallpaper
    /\ os = NoImage
    /\ lifecycle = "unmounted"
    /\ intervalRef = 0
    /\ isRunningRef = FALSE
    /\ timers = {}
    /\ tasks = <<>>
    /\ rots = [k \in 1..MaxSlots |-> IdleRotation]
    /\ disarmed = FALSE
    /\ everStopped = FALSE
    /\ InitPages(FALSE)

\* --------------------------------------------------------- settings store
\* save_settings: the backend replaces the stored settings
StoreSettings(s) ==
    /\ settings' = s
    /\ tasks' = [i \in DOMAIN tasks |-> [tasks[i] EXCEPT !.fresh = FALSE]]
    /\ rots' = IF s.auto_change THEN rots ELSE MarkCut(rots)

\* a save_settings call of any writer
saveSettings(s) ==
    /\ s # settings
    /\ StoreSettings(s)
    /\ UNCHANGED <<uiVars, record, os, lifecycle, timerVars, isRunningRef, histVars>>

\* ------------------------------------------------- stopAutoChange (disarm)
\* the active timers after stopAutoChange
TimersAfterStop(ts, ref) == IF ref # 0 THEN clearInterval(ts, ref) ELSE ts

\* lines 68-71
StopEffect ==
    /\ timers' = TimersAfterStop(timers, intervalRef)
    /\ intervalRef' = 0
    /\ disarmed' = TRUE
    /\ everStopped' = TRUE
    /\ rots' = MarkCut(rots)

\* a direct call of the returned stopAutoChange
stopAutoChange ==
    /\ lifecycle = "mounted"
    /\ StopEffect
    /\ UNCHANGED <<uiVars, backendVars, lifecycle, isRunningRef, tasks>>

\* ------------------------------------------------------ the mount effect
\* useEffect body: getSettings() is issued, its continuation runs later.
\* HomePage's own mount effect calls loadInitialData in the same commit.
Mount ==
    /\ lifecycle = "unmounted"
    /\ Room(2)
    /\ lifecycle' = "mounted"
    /\ tasks' = Append(tasks, NewTask("mount"))
    /\ loads' = IF home.host THEN Append(loads, NewLoad) ELSE loads
    /\ UNCHANGED <<page, home, manual, backendVars, timerVars, rotVars, histVars>>

\* A re-render hands the hook a new onWallpaperChanged, so changeWallpaper,
\* startAutoChange and the effect's dependencies change: the cleanup of the
\* previous effect runs, then the effect runs again.
Rerender ==
    /\ lifecycle = "mounted"
    /\ Room(2)
    /\ StopEffect
    /\ tasks' = Append(tasks, NewTask("mount"))
    /\ UNCHANGED <<uiVars, backendVars, lifecycle, isRunningRef>>

\* the cleanup of the effect on unmount
Unmount ==
    /\ lifecycle = "mounted"
    /\ lifecycle' = "torn"
    /\ StopEffect
    /\ UNCHANGED <<uiVars, backendVars, isRunningRef, tasks>>

\* the backend answers a pending get_settings with the settings it holds now
ServeRead(i) ==
    /\ tasks[i].st = "pending"
    /\ tasks' = [tasks EXCEPT ![i].st = "served", ![i].val = settings]
    /\ UNCHANGED <<uiVars, backendVars, lifecycle, timerVars, rotVars, histVars>>

\* a pending get_settings rejects: neither the effect nor startAutoChange
\* catches it, the continuation never runs
RejectRead(i) ==
    /\ tasks[i].st = "pending"
    /\ tasks' = Done(tasks, i, "rejected")
    /\ UNCHANGED <<uiVars, backendVars, lifecycle, timerVars, rotVars, histVars>>

\* .then((settings) => { if (settings.auto_change && settings.api_key) startAutoChange() })
MountResolve(i) ==
    /\ tasks[i].kind = "mount"
    /\ tasks[i].st = "served"
    /\ IF Enabled(tasks[i].val)
       THEN /\ tasks' = Append(Done(tasks, i, "spawned"), NewTask("arm"))
            /\ disarmed' = FALSE
       ELSE /\ tasks' = Done(tasks, i, "noop")
            /\ disarmed' = disarmed
    /\ UNCHANGED <<uiVars, backendVars, lifecycle, timerVars, rotVars, everStopped>>

\* --------------------------------------------------- startAutoChange (arm)
\* a direct call of the returned startAutoChange, up to its await
startAutoChange ==
    /\ lifecycle = "mounted"
    /\ Room(1)
    /\ tasks' = Append(tasks, NewTask("arm"))
    /\ disarmed' = FALSE
    /\ UNCHANGED <<uiVars, backendVars, lifecycle, timerVars, rotVars, everStopped>>

\* window.setInterval(changeWallpaper, ms) returning id
NewTimer(id, ms) == [id |-> id, ms |-> ms, period |-> TimeoutOf(ms)]

\* (mutant) the new timer is started without cancelling the previous one
TimersAfterArm_NoClear(ts, ref, id, ms) == ts \cup {NewTimer(id, ms)}

\* the active timers after `if (intervalRef.current) clearInterval(...)` and
\* window.setInterval, which returns the fresh id
TimersAfterArm(ts, ref, id, ms) ==
    (IF ref # 0 THEN clearInterval(ts, ref) ELSE ts) \cup {NewTimer(id, ms)}

\* (mutant) only auto_change is looked at
ArmReturns_AutoOnly(s) == ~s.auto_change

\* line 49: `if (!settings.auto_change || !settings.api_key)`
ArmReturns(s) == ~s.auto_change \/ ~(s.api_key # "")

\* startAutoChange after its await: lines 49-64, all synchronous.  The timer
\* is named after the call that started it.
ArmResolve(i) ==
    /\ tasks[i].kind = "arm"
    /\ tasks[i].st = "served"
    /\ IF ArmReturns(tasks[i].val)
       THEN /\ tasks' = Done(tasks, i, "noop")
            /\ UNCHANGED timerVars
       ELSE /\ tasks' = Done(tasks, i, "armed")
            /\ timers' = TimersAfterArm(timers, intervalRef, i,
                              getIntervalMs(tasks[i].val.interval_value,
                                            tasks[i].val.interval_unit))
            /\ intervalRef' = i
    /\ UNCHANGED <<uiVars, backendVars, lifecycle, rotVars, histVars>>

\* ------------------------------------------- changeWallpaper (rotate)
\* (mutant) the guard is not consulted
GuardBlocks_Never(running) == FALSE

\* `if (isRunningRef.current) return;`
GuardBlocks(running) == running

NewRotation(via, overlapped, blocked) ==
    [IdleRotation EXCEPT
        !.pc = IF blocked THEN "skipped" ELSE "getSettings",
        !.calls = IF blocked THEN <<>> ELSE <<"getSettings">>,
        !.via = via, !.overlapped = overlapped]

\* the slot an invocation is recorded in: the first with no rotation executing
FreeSlots == {k \in DOMAIN rots : ~Running(rots[k])}
FirstFree == CHOOSE k \in FreeSlots : \A m \in FreeSlots : k <= m

\* lines 26-30: the guard, the flag, and the call of getSettings
Invoke(via) ==
    /\ FreeSlots # {}
    /\ LET blocked == GuardBlocks(isRunningRef)
           overlapped == \E j \in DOMAIN rots : Running(rots[j])
       IN /\ rots' = [rots EXCEPT ![FirstFree] = NewRotation(via, overlapped, blocked)]
          /\ isRunningRef' = IF blocked THEN isRunningRef ELSE TRUE
    /\ UNCHANGED <<uiVars, backendVars, lifecycle, timerVars, tasks, histVars>>

\* a timer of the hook fires
Tick(t) ==
    /\ t \in timers
    /\ Invoke("tick")

\* a direct call of the returned changeWallpaper
changeWallpaper ==
    /\ lifecycle = "mounted"
    /\ Invoke("direct")

\* history: the awaited call of step rejected (or the observer threw)
Rejected(r, step) == [r EXCEPT !.rejected = step]

\* (mutant) the catch swallows the error without logging it
Failed_Silent(r) == [r EXCEPT !.pc = "done"]

\* lines 40-44: catch (console.error), then finally
Failed(r) == [r EXCEPT !.pc = "done", !.reported = r.reported + 1]

\* the next collaborator is called
Advance(r, step) == [r EXCEPT !.pc = step, !.calls = Append(r.calls, step)]

\* (mutant) only the API key is looked at
RotationAborts_KeyOnly(s) == ~(s.api_key # "")

\* history: what the settings the rotation read allow
Saw(s) == IF Enabled(s) THEN "enabled" ELSE "disabled"

\* line 31
RotationAborts(s) == ~(s.api_key # "") \/ ~s.auto_change

\* lines 30-35: getSettings resolved with s
AfterGetSettings(r, s) ==
    IF RotationAborts(s)
    THEN [r EXCEPT !.pc = "done", !.sawEnabled = Saw(s)]
    ELSE Advance([r EXCEPT !.sawEnabled = Saw(s)], "fetchRandomImage")

\* (mutant) the flag is cleared in the catch block, not in a finally
Finally_OnlyInCatch(r, flag) ==
    IF r.pc = "done" /\ r.rejected # "" THEN FALSE ELSE flag

\* (mutant) the flag is cleared at the end of the try block, not in a finally
Finally_OnlyOnSuccess(r, flag) ==
    IF r.pc = "done" /\ r.rejected = "" /\ r.observed = 1 THEN FALSE ELSE flag

\* `finally { isRunningRef.current = false }` once the rotation r has ended
Finally(r, flag) == IF r.pc = "done" THEN FALSE ELSE flag

\* get_settings answered with the stored settings, or rejected
RotGetSettings(k) ==
    /\ rots[k].pc = "getSettings"
    /\ \/ rots' = [rots EXCEPT ![k] = AfterGetSettings(rots[k], settings)]
       \/ rots' = [rots EXCEPT ![k] = Failed(Rejected(rots[k], "getSettings"))]
    /\ isRunningRef' = Finally(rots'[k], isRunningRef)
    /\ UNCHANGED <<uiVars, backendVars, lifecycle, timerVars, tasks, histVars>>

\* lines 35-36: fetch_random_image resolved with an image or rejected
AfterFetch(r, img) == Advance([r EXCEPT !.img = img], "setWallpaper")

\* lines 35 and 40-44: fetch_random_image rejected
AfterFetchFailed(r) == Failed(r)

RotFetch(k) ==
    /\ rots[k].pc = "fetchRandomImage"
    /\ \/ \E img \in Images : rots' = [rots EXCEPT ![k] = AfterFetch(rots[k], img)]
       \/ rots' = [rots EXCEPT ![k] = AfterFetchFailed(Rejected(rots[k], "fetchRandomImage"))]
    /\ isRunningRef' = Finally(rots'[k], isRunningRef)
    /\ UNCHANGED <<uiVars, backendVars, lifecycle, timerVars, tasks, histVars>>

\* (mutant) the rotation stops after the apply when the hook holds no timer
AfterApply_StopsWhenDisarmed(r) ==
    IF intervalRef = 0
    THEN [r EXCEPT !.pc = "done", !.applied = TRUE]
    ELSE Advance([r EXCEPT !.applied = TRUE], "saveCurrentWallpaper")

\* lines 36-37: set_wallpaper resolved with the path
AfterApply(r) == Advance([r EXCEPT !.applied = TRUE], "saveCurrentWallpaper")

\* (mutant) a failed apply is swallowed and the rotation goes on to save
AfterApplyFailed_Continue(r) == Advance(r, "saveCurrentWallpaper")

\* lines 36 and 40-44: set_wallpaper rejected
AfterApplyFailed(r) == Failed(r)

\* set_wallpaper changed the OS wallpaper and resolved, or rejected
RotApply(k) ==
    /\ rots[k].pc = "setWallpaper"
    /\ \/ /\ os' = rots[k].img
          /\ rots' = [rots EXCEPT ![k] = AfterApply(rots[k])]
       \/ /\ rots' = [rots EXCEPT ![k] = AfterApplyFailed(Rejected(rots[k], "setWallpaper"))]
          /\ UNCHANGED os
    /\ isRunningRef' = Finally(rots'[k], isRunningRef)
    /\ UNCHANGED <<uiVars, settings, record, lifecycle, timerVars, tasks, histVars>>

\* lines 37-38: save_current_wallpaper resolved
AfterSave(r) == Advance([r EXCEPT !.saved = TRUE], "triggerDownload")

\* lines 37-38 and 40-44: save_current_wallpaper rejected
AfterSaveFailed(r) == Failed(r)

\* save_current_wallpaper stored the record and resolved, or rejected
RotSave(k) ==
    /\ rots[k].pc = "saveCurrentWallpaper"
    /\ \/ /\ record' = [image |-> rots[k].img, local_path |-> PathOf(rots[k].img)]
          /\ rots' = [rots EXCEPT ![k] = AfterSave(rots[k])]
       \/ /\ rots' = [rots EXCEPT ![k] = AfterSaveFailed(Rejected(rots[k], "saveCurrentWallpaper"))]
          /\ UNCHANGED record
    /\ isRunningRef' = Finally(rots'[k], isRunningRef)
    /\ UNCHANGED <<uiVars, settings, os, lifecycle, timerVars, tasks, histVars>>

\* line 39: onWallpaperChanged?.() returned or threw
AfterObserver(r, threw) ==
    IF threw
    THEN Failed(Rejected([r EXCEPT !.observed = r.observed + 1], "onWallpaperChanged"))
    ELSE [r EXCEPT !.pc = "done", !.observed = r.observed + 1]

\* lines 38 and 40-44: trigger_download rejected
AfterNotifyFailed(r) == Failed(r)

\* what the observer may do: HomePage's calls loadInitialData and returns,
\* any other may throw
ObserverThrows == IF home.host THEN {FALSE} ELSE BOOLEAN

\* trigger_download resolved (the observer runs in the same turn, inside the
\* try block, and may itself call changeWallpaper) or rejected
RotNotify(k) ==
    /\ rots[k].pc = "triggerDownload"
    /\ \/ /\ home.host => Len(loads) < MaxLoads
          /\ \E threw \in ObserverThrows :
                rots' = [rots EXCEPT ![k] = AfterObserver(rots[k], threw)]
          /\ loads' = IF home.host THEN Append(loads, NewLoad) ELSE loads
       \/ /\ ~home.host
          /\ FreeSlots # {}
          /\ rots' = [rots EXCEPT
                         ![k] = AfterObserver(rots[k], FALSE),
                         ![FirstFree] = NewRotation("observer", TRUE, GuardBlocks(isRunningRef))]
          /\ UNCHANGED loads
       \/ /\ rots' = [rots EXCEPT ![k] = AfterNotifyFailed(Rejected(rots[k], "triggerDownload"))]
          /\ UNCHANGED loads
    /\ isRunningRef' = Finally(rots'[k], isRunningRef)
    /\ UNCHANGED <<page, home, manual, backendVars, lifecycle, timerVars, tasks, histVars>>

\* ---------------------------------------------------------------- HomePage
\* `previewImage || currentImage`
displayImage(h) == IF h.previewImage # NoImage THEN h.previewImage ELSE h.currentImage

Remove(seq, i) == SubSeq(seq, 1, i - 1) \o SubSeq(seq, i + 1, Len(seq))

\* the backend announces a wallpaper change: the listener calls loadInitialData
WallpaperChangedEvent ==
    /\ home.host /\ lifecycle = "mounted"
    /\ Len(loads) < MaxLoads
    /\ loads' = Append(loads, NewLoad)
    /\ UNCHANGED <<page, home, manual, backendVars, lifecycle, timerVars, rotVars, tasks, histVars>>

\* get_current_wallpaper of load i is answered with the stored record
LoadServeWallpaper(i) ==
    /\ ~loads[i].wallpaperRead
    /\ loads' = [loads EXCEPT ![i].wallpaper = record, ![i].wallpaperRead = TRUE]
    /\ UNCHANGED <<page, home, manual, backendVars, lifecycle, timerVars, rotVars, tasks, histVars>>

\* get_settings of load i is answered with the stored settings
LoadServeSettings(i) ==
    /\ ~loads[i].settingsRead
    /\ loads' = [loads EXCEPT ![i].apiKey = settings.api_key, ![i].settingsRead = TRUE]
    /\ UNCHANGED <<page, home, manual, backendVars, lifecycle, timerVars, rotVars, tasks, histVars>>

\* one of the calls of the Promise.all rejected: the catch logs, nothing is set
LoadReject(i) ==
    /\ loads' = Remove(loads, i)
    /\ UNCHANGED <<page, home, manual, backendVars, lifecycle, timerVars, rotVars, tasks, histVars>>

\* lines 118-123: loadInitialData after its await
AfterLoad(h, l) ==
    IF l.wallpaper.image # NoImage
    THEN [h EXCEPT !.currentImage = l.wallpaper.image,
                   !.localPath = l.wallpaper.local_path,
                   !.apiKey = l.apiKey]
    ELSE [h EXCEPT !.apiKey = l.apiKey]

LoadResolve(i) ==
    /\ loads[i].wallpaperRead /\ loads[i].settingsRead
    /\ home' = AfterLoad(home, loads[i])
    /\ loads' = Remove(loads, i)
    /\ UNCHANGED <<page, manual, backendVars, lifecycle, timerVars, rotVars, tasks, histVars>>

\* handleFetchNew up to its await; the button is disabled while isLoading
handleFetchNew ==
    /\ home.host /\ lifecycle = "mounted"
    /\ ~home.isLoading
    /\ home' = IF home.apiKey = ""
               THEN [home EXCEPT !.error = TRUE]
               ELSE [home EXCEPT !.isLoading = TRUE, !.error = FALSE]
    /\ UNCHANGED <<page, loads, manual, backendVars, lifecycle, timerVars, rotVars, tasks, histVars>>

\* fetch_random_image of handleFetchNew resolved with an image or rejected
FetchNewResolve ==
    /\ home.isLoading
    /\ \/ \E img \in Images : home' = [home EXCEPT !.previewImage = img, !.isLoading = FALSE]
       \/ home' = [home EXCEPT !.error = TRUE, !.isLoading = FALSE]
    /\ UNCHANGED <<page, loads, manual, backendVars, lifecycle, timerVars, rotVars, tasks, histVars>>

\* handleSetWallpaper up to its first await, with the displayImage of the
\* render it was created in; the button is disabled while
\* isSettingWallpaper || !displayImage
handleSetWallpaper ==
    /\ home.host /\ lifecycle = "mounted"
    /\ ~home.isSettingWallpaper
    /\ displayImage(home) # NoImage
    /\ home' = [home EXCEPT !.isSettingWallpaper = TRUE, !.error = FALSE]
    /\ manual' = [IdleManual EXCEPT !.pc = "setWallpaper", !.img = displayImage(home),
                                    !.everFailed = manual.everFailed]
    /\ UNCHANGED <<page, loads, backendVars, lifecycle, timerVars, rotVars, tasks, histVars>>

\* lines 157-161: catch (setError) and finally
ManualFailed(step) ==
    /\ manual' = [manual EXCEPT !.pc = "done", !.rejected = step, !.everFailed = TRUE]
    /\ home' = [home EXCEPT !.error = TRUE, !.isSettingWallpaper = FALSE]

\* set_wallpaper of handleSetWallpaper changed the OS wallpaper, or rejected
ManualApply ==
    /\ manual.pc = "setWallpaper"
    /\ \/ /\ os' = manual.img
          /\ manual' = [manual EXCEPT !.pc = "saveCurrentWallpaper", !.applied = TRUE]
          /\ UNCHANGED home
       \/ /\ ManualFailed("setWallpaper")
          /\ UNCHANGED os
    /\ UNCHANGED <<page, loads, settings, record, lifecycle, timerVars, rotVars, tasks, histVars>>

\* save_current_wallpaper of handleSetWallpaper stored the record, or rejected
ManualSave ==
    /\ manual.pc = "saveCurrentWallpaper"
    /\ \/ /\ record' = [image |-> manual.img, local_path |-> PathOf(manual.img)]
          /\ manual' = [manual EXCEPT !.pc = "triggerDownload", !.saved = TRUE]
          /\ UNCHANGED home
       \/ /\ ManualFailed("saveCurrentWallpaper")
          /\ UNCHANGED record
    /\ UNCHANGED <<page, loads, settings, os, lifecycle, timerVars, rotVars, tasks, histVars>>

\* trigger_download of handleSetWallpaper resolved (lines 153-155 and the
\* finally run) or rejected
ManualNotify ==
    /\ manual.pc = "triggerDownload"
    /\ \/ /\ manual' = [manual EXCEPT !.pc = "done"]
          /\ home' = [home EXCEPT !.currentImage = manual.img, !.previewImage = NoImage,
                                  !.localPath = PathOf(manual.img),
                                  !.isSettingWallpaper = FALSE]
       \/ ManualFailed("triggerDownload")
    /\ UNCHANGED <<page, loads, backendVars, lifecycle, timerVars, rotVars, tasks, histVars>>

\* ------------------------------------------------------------ SettingsPage
\* String(value): the decimal digits
RECURSIVE ToDigits(_)
ToDigits(n) == IF n < 10 THEN <<n>> ELSE Append(ToDigits(n \div 10), n % 10)

\* parseInt(valueStr, 10) of a string of digits
RECURSIVE parseInt(_)
parseInt(ds) ==
    IF ds = <<>> THEN 0
    ELSE parseInt(SubSeq(ds, 1, Len(ds) - 1)) * 10 + ds[Len(ds)]

\* `${value}-${unit}`, kept as the text before and the text after the dash
IntervalText(value, unit) == <<ToDigits(value), unit>>

\* the entries of INTERVAL_OPTIONS the user picks from here
OfferedIntervals == {IntervalText(1, "hours"), IntervalText(3, "hours")}

\* the route changes from / to /settings: HomePage was unmounted, the page
\* starts from its useState defaults and loadSettings is called
OpenSettings ==
    /\ lifecycle = "torn"
    /\ page.pc = "closed"
    /\ page' = [ClosedPage EXCEPT !.pc = "idle", !.load = "pending",
                                  !.selectedInterval = IntervalText(1, "hours")]
    /\ UNCHANGED <<homeVars, backendVars, lifecycle, timerVars, rotVars, tasks, histVars>>

\* the get_settings call of loadSettings is answered
LoadSettingsServe ==
    /\ page.load = "pending"
    /\ page' = [page EXCEPT !.load = "served", !.loaded = settings]
    /\ UNCHANGED <<homeVars, backendVars, lifecycle, timerVars, rotVars, tasks, histVars>>

\* get_settings or get_platform rejected: loadSettings logs and sets nothing
LoadSettingsReject ==
    /\ page.load = "pending"
    /\ page' = [page EXCEPT !.load = "failed"]
    /\ UNCHANGED <<homeVars, backendVars, lifecycle, timerVars, rotVars, tasks, histVars>>

\* loadSettings after its await: the form shows the settings read
LoadSettingsResolve ==
    /\ page.load = "served"
    /\ page' = [page EXCEPT
                   !.load = "done", !.loaded = Null,
                   !.apiKey = page.loaded.api_key,
                   !.selectedInterval = IntervalText(page.loaded.interval_value,
                                                     page.loaded.interval_unit),
                   !.autoChange = page.loaded.auto_change]
    /\ UNCHANGED <<homeVars, backendVars, lifecycle, timerVars, rotVars, tasks, histVars>>

\* the user edits the form once loadSettings has filled it in or failed
FormLoaded == page.pc # "closed" /\ page.load \in {"done", "failed"}

handleApiKeyChange(key) ==
    /\ FormLoaded
    /\ key # page.apiKey
    /\ page' = [page EXCEPT !.apiKey = key, !.hasChanges = TRUE]
    /\ UNCHANGED <<homeVars, backendVars, lifecycle, timerVars, rotVars, tasks, histVars>>

handleIntervalChange(value) ==
    /\ FormLoaded
    /\ value # page.selectedInterval
    /\ page' = [page EXCEPT !.selectedInterval = value, !.hasChanges = TRUE]
    /\ UNCHANGED <<homeVars, backendVars, lifecycle, timerVars, rotVars, tasks, histVars>>

handleAutoChangeToggle(checked) ==
    /\ FormLoaded
    /\ checked # page.autoChange
    /\ page' = [page EXCEPT !.autoChange = checked, !.hasChanges = TRUE]
    /\ UNCHANGED <<homeVars, backendVars, lifecycle, timerVars, rotVars, tasks, histVars>>

\* lines 130-140
NewSettings(pg) ==
    [auto_change |-> pg.autoChange, api_key |-> pg.apiKey,
     interval_value |-> parseInt(pg.selectedInterval[1]),
     interval_unit |-> pg.selectedInterval[2]]

\* handleSave up to its first await; the button is disabled while
\* !hasChanges || isSaving
handleSave ==
    /\ page.pc = "idle"
    /\ page.hasChanges /\ ~page.isSaving
    /\ page' = [page EXCEPT !.pc = "saveSettings", !.isSaving = TRUE,
                            !.newSettings = NewSettings(page),
                            !.calls = <<"saveSettings">>, !.outcome = "",
                            !.rejected = ""]
    /\ UNCHANGED <<homeVars, backendVars, lifecycle, timerVars, rotVars, tasks, histVars>>

\* lines 145-149: the command handleSave calls after the save
CommandAfterSave(s) == IF s.auto_change THEN "startAutoChange" ELSE "stopAutoChange"

\* (mutant) isSaving is reset at the end of the try block, not in a finally
SaveFailed_KeepsSaving(pg) == [pg EXCEPT !.pc = "idle", !.outcome = "failed"]

\* lines 153-157: catch (console.error) and finally
SaveFailed(pg) == [pg EXCEPT !.pc = "idle", !.isSaving = FALSE, !.outcome = "failed"]

\* save_settings stored the settings and resolved, or rejected
SaveSettingsResolve ==
    /\ page.pc = "saveSettings"
    /\ \/ /\ StoreSettings(page.newSettings)
          /\ page' = [page EXCEPT
                         !.pc = CommandAfterSave(page.newSettings),
                         !.calls = Append(page.calls, CommandAfterSave(page.newSettings))]
       \/ /\ page' = SaveFailed([page EXCEPT !.rejected = "saveSettings"])
          /\ UNCHANGED <<settings, tasks, rots>>
    /\ UNCHANGED <<homeVars, record, os, lifecycle, timerVars, isRunningRef, histVars>>

\* start_auto_change / stop_auto_change of lib/wallpaper resolved or
\* rejected.  Both are commands of the backend; neither reaches the hook.
CommandResolve ==
    /\ page.pc \in {"startAutoChange", "stopAutoChange"}
    /\ \/ page' = [page EXCEPT !.pc = "idle", !.hasChanges = FALSE,
                               !.isSaving = FALSE, !.outcome = "saved"]
       \/ page' = SaveFailed([page EXCEPT !.rejected = page.pc])
    /\ UNCHANGED <<homeVars, backendVars, lifecycle, timerVars, rotVars, tasks, histVars>>

\* ------------------------------------------------------------------- Next
\* the steps of a rotation after its invocation
RotationSteps ==
    \/ \E k \in DOMAIN rots : RotGetSettings(k)
    \/ \E k \in DOMAIN rots : RotFetch(k)
    \/ \E k \in DOMAIN rots : RotApply(k)
    \/ \E k \in DOMAIN rots : RotSave(k)
    \/ \E k \in DOMAIN rots : RotNotify(k)

\* mount, unmount, disarm and the settings reads in flight
LifecycleSteps ==
    \/ \E s \in SettingsChoices : saveSettings(s)
    \/ Mount
    \/ Unmount
    \/ stopAutoChange
    \/ \E i \in DOMAIN tasks : ServeRead(i)
    \/ \E i \in DOMAIN tasks : RejectRead(i)
    \/ \E i \in DOMAIN tasks : MountResolve(i)
    \/ \E i \in DOMAIN tasks : ArmResolve(i)
    \/ \E t \in timers : Tick(t)

\* the handlers of HomePage and their continuations
HomeSteps ==
    \/ WallpaperChangedEvent
    \/ \E i \in DOMAIN loads : LoadServeWallpaper(i)
    \/ \E i \in DOMAIN loads : LoadServeSettings(i)
    \/ \E i \in DOMAIN loads : LoadReject(i)
    \/ \E i \in DOMAIN loads : LoadResolve(i)
    \/ handleSetWallpaper
    \/ ManualApply
    \/ ManualSave
    \/ ManualNotify

\* the handlers of SettingsPage and their continuations
PageSteps ==
    \/ OpenSettings
    \/ LoadSettingsServe
    \/ LoadSettingsReject
    \/ LoadSettingsResolve
    \/ \E key \in {"", "k"} : handleApiKeyChange(key)
    \/ \E value \in OfferedIntervals : handleIntervalChange(value)
    \/ \E checked \in BOOLEAN : handleAutoChangeToggle(checked)
    \/ handleSave
    \/ SaveSettingsResolve
    \/ CommandResolve

Next ==
    \/ LifecycleSteps
    \/ Rerender
    \/ startAutoChange
    \/ changeWallpaper
    \/ RotationSteps
    \/ HomeSteps
    \/ handleFetchNew
    \/ FetchNewResolve
    \/ PageSteps

Spec == Init /\ [][Next]_vars

\* The timer of the hook under every interleaving of arm, disarm, mount,
\* re-render and unmount.  The steps of a rotation neither read nor write
\* intervalRef, timers or the settings reads in flight, so the backend is
\* left not answering the rotation a tick started.
TimerNext ==
    \/ LifecycleSteps
    \/ Rerender
    \/ startAutoChange

SpecTimer == Init /\ [][TimerNext]_vars

\* The rotation under every outcome of its collaborators, started by the
\* timer the mount effect armed or by a direct call.
RotationNext ==
    \/ LifecycleSteps
    \/ changeWallpaper
    \/ RotationSteps

SpecRotation == Init /\ [][RotationNext]_vars

\* The timer the hook starts for every interval the store may hold at
\* startup: the settings are not written, the component mounts, is armed and
\* disarmed, and unmounts.
InitStored ==
    /\ settings \in StoredSettings
    /\ record = NoWallpaper
    /\ os = NoImage
    /\ lifecycle = "unmounted"
    /\ intervalRef = 0
    /\ isRunningRef = FALSE
    /\ timers = {}
    /\ tasks = <<>>
    /\ rots = [k \in 1..MaxSlots |-> IdleRotation]
    /\ disarmed = FALSE
    /\ everStopped = FALSE
    /\ InitPages(FALSE)

CadenceNext ==
    \/ Mount
    \/ Unmount
    \/ startAutoChange
    \/ stopAutoChange
    \/ \E i \in DOMAIN tasks : ServeRead(i)
    \/ \E i \in DOMAIN tasks : RejectRead(i)
    \/ \E i \in DOMAIN tasks : MountResolve(i)
    \/ \E i \in DOMAIN tasks : ArmResolve(i)
    \/ \E t \in timers : Tick(t)

SpecCadence == InitStored /\ [][CadenceNext]_vars

\* The settings page after HomePage, and with it the hook, was unmounted.
SettingsNext ==
    \/ Mount
    \/ Unmount
    \/ \E i \in DOMAIN tasks : ServeRead(i)
    \/ \E i \in DOMAIN tasks : RejectRead(i)
    \/ \E i \in DOMAIN tasks : MountResolve(i)
    \/ \E i \in DOMAIN tasks : ArmResolve(i)
    \/ PageSteps

SpecSettings == Init /\ [][SettingsNext]_vars

\* HomePage with the hook it hosts: the mount arms the hook, ticks start
\* rotations, HomePage reloads after each, and the user sets the image shown
\* as wallpaper again.  The steps of a rotation and of handleSetWallpaper
\* read neither intervalRef nor the timers, so the re-run of the hook's
\* effect after a render is left to SpecTimer; previews (handleFetchNew) only
\* widen the choice of images handleSetWallpaper starts from.
InitHome ==
    /\ settings \in SettingsChoices
    /\ record = NoWallpaper
    /\ os = NoImage
    /\ lifecycle = "unmounted"
    /\ intervalRef = 0
    /\ isRunningRef = FALSE
    /\ timers = {}
    /\ tasks = <<>>
    /\ rots = [k \in 1..MaxSlots |-> IdleRotation]
    /\ disarmed = FALSE
    /\ everStopped = FALSE
    /\ InitPages(TRUE)

HomeNext ==
    \/ Mount
    \/ \E i \in DOMAIN tasks : ServeRead(i)
    \/ \E i \in DOMAIN tasks : MountResolve(i)
    \/ \E i \in DOMAIN tasks : ArmResolve(i)
    \/ \E t \in timers : Tick(t)
    \/ RotationSteps
    \/ HomeSteps

SpecHome == InitHome /\ [][HomeNext]_vars

\* HomePage reloading after rotations: every backend call of a reload is
\* answered, in any order, and the wallpaper is only changed by rotations.
ReloadNext ==
    \/ Mount
    \/ \E i \in DOMAIN tasks : ServeRead(i)
    \/ \E i \in DOMAIN tasks : MountResolve(i)
    \/ \E i \in DOMAIN tasks : ArmResolve(i)
    \/ \E t \in timers : Tick(t)
    \/ RotationSteps
    \/ WallpaperChangedEvent
    \/ \E i \in DOMAIN loads : LoadServeWallpaper(i)
    \/ \E i \in DOMAIN loads : LoadServeSettings(i)
    \/ \E i \in DOMAIN loads : LoadResolve(i)

SpecReload == InitHome /\ [][ReloadNext]_vars

\* The rotations the armed timer starts when every collaborator call is
\* answered: a call the backend received resolves or rejects after a finite
\* time, so each continuation of a rotation that is waiting runs eventually.
\* Ticks come as the timer sends them, with no promise that one comes.
LiveNext ==
    \/ Mount
    \/ \E i \in DOMAIN tasks : ServeRead(i)
    \/ \E i \in DOMAIN tasks : MountResolve(i)
    \/ \E i \in DOMAIN tasks : ArmResolve(i)
    \/ \E t \in timers : Tick(t)
    \/ RotationSteps

CallsReturn ==
    \A k \in 1..MaxSlots :
        /\ WF_vars(RotGetSettings(k))
        /\ WF_vars(RotFetch(k))
        /\ WF_vars(RotApply(k))
        /\ WF_vars(RotSave(k))
        /\ WF_vars(RotNotify(k))

SpecLive == Init /\ [][LiveNext]_vars /\ CallsReturn

Cadence(s) == getIntervalMs(s.interval_value, s.interval_unit)

\* The host re-rendering after startup armed the hook: the store holds
\* enabled settings, the mount effect and the startAutoChange it called have
\* run, no call is in flight, and the timer they started is active under an
\* id that no later setInterval returns.  The host stays mounted and the
\* settings are not written.
StartupTimerId == MaxTasks + 1

InitArmed ==
    /\ settings \in {s \in SettingsChoices : Enabled(s)}
    /\ record = NoWallpaper
    /\ os = NoImage
    /\ lifecycle = "mounted"
    /\ intervalRef = StartupTimerId
    /\ isRunningRef = FALSE
    /\ timers = {NewTimer(StartupTimerId, Cadence(settings))}
    /\ tasks = <<>>
    /\ rots = [k \in 1..MaxSlots |-> IdleRotation]
    /\ disarmed = FALSE
    /\ everStopped = FALSE
    /\ InitPages(FALSE)

RenderNext ==
    \/ Rerender
    \/ \E i \in DOMAIN tasks : ServeRead(i)
    \/ \E i \in DOMAIN tasks : MountResolve(i)
    \/ \E i \in DOMAIN tasks : ArmResolve(i)
    \/ \E t \in timers : Tick(t)
    \/ RotationSteps

SpecRender == InitArmed /\ [][RenderNext]_vars

\* ----------------------------------------------------------------- claims
Range(f) == {f[x] : x \in DOMAIN f}

RunningSlots == {k \in DOMAIN rots : Running(rots[k])}

ArmTasks == {i \in DOMAIN tasks : tasks[i].kind = "arm"}

\* C1: an invocation of changeWallpaper made while an earlier one has not
\* finished returns at the guard: it calls no collaborator and not the
\* observer, and at most one rotation is executing at any time.
C1_OverlappingInvocationSkipped ==
    /\ Cardinality(RunningSlots) <= 1
    /\ \A k \in DOMAIN rots :
          rots[k].overlapped =>
             /\ rots[k].pc = "skipped"
             /\ rots[k].calls = <<>>
             /\ rots[k].observed = 0

\* an invocation was dropped while the running rotation waits for its fetch
C1_Witness ==
    \E k, j \in DOMAIN rots :
        /\ rots[k].overlapped /\ rots[k].pc = "skipped" /\ rots[k].via = "tick"
        /\ rots[j].pc = "fetchRandomImage"

\* C2: at most one timer is active, and an active timer is the one
\* intervalRef holds.
C2_AtMostOneTimer ==
    /\ Cardinality(timers) <= 1
    /\ \A t \in timers : t.id = intervalRef

\* two startAutoChange calls each started a timer, no disarm in between
C2_Witness ==
    \E i, j \in ArmTasks :
        /\ i < j
        /\ tasks[i].res = "armed" /\ tasks[j].res = "armed"
        /\ ~everStopped
        /\ timers # {}

\* C3: isRunningRef is true exactly while a rotation is executing, from
\* before the settings re-read until the rotation has ended in any way.
C3_GuardExactlyWhileRunning == isRunningRef <=> (RunningSlots # {})

\* a rotation ended by a failure after the apply step, the flag is clear
C3_Witness ==
    \E k \in DOMAIN rots :
        /\ rots[k].pc = "done"
        /\ rots[k].rejected = "saveCurrentWallpaper"
        /\ ~isRunningRef

\* C4 (as claimed): after disarm, with no arm call issued afterwards, no
\* timer is active.
C4_NoTimerAfterDisarm == disarmed => timers = {}

\* C5 (as claimed): two startAutoChange calls with the stored settings
\* written between them (and not after the second) leave, once both have
\* completed, exactly one timer, at the cadence of the second call's settings.
C5_SecondCallCadence ==
    \A i, j \in ArmTasks :
        ( /\ i < j
          /\ ArmTasks = {i, j}
          /\ tasks[i].st = "done" /\ tasks[j].st = "done"
          /\ ~tasks[i].fresh /\ tasks[j].fresh
          /\ tasks[j].res = "armed"
          /\ ~everStopped )
        => /\ Cardinality(timers) = 1
           /\ \A t \in timers : t.ms = Cadence(settings)

\* C6: a rotation whose fetch or apply failed stops at that step: no later
\* collaborator is called, the step is not repeated, and the step that
\* failed leaves the stored record as it was.
C6_FailedStepCalls ==
    \A k \in DOMAIN rots :
        /\ rots[k].rejected = "fetchRandomImage" =>
              /\ rots[k].pc = "done"
              /\ rots[k].calls = <<"getSettings", "fetchRandomImage">>
              /\ ~rots[k].applied /\ ~rots[k].saved /\ rots[k].observed = 0
        /\ rots[k].rejected = "setWallpaper" =>
              /\ rots[k].pc = "done"
              /\ rots[k].calls = <<"getSettings", "fetchRandomImage", "setWallpaper">>
              /\ ~rots[k].saved /\ rots[k].observed = 0
        /\ (rots[k].pc \in {"fetchRandomImage", "setWallpaper"}) => ~rots[k].saved

C6_FailedStepKeepsRecord ==
    \A k \in DOMAIN rots :
        (rots[k].pc \in {"fetchRandomImage", "setWallpaper"} /\ rots'[k].pc = "done")
            => record' = record

C6_FetchOrApplyFailureAborts ==
    [](C6_FailedStepCalls) /\ [][C6_FailedStepKeepsRecord]_vars

\* a rotation failed at apply while the record of an earlier one is stored
C6_Witness ==
    \E k \in DOMAIN rots :
        /\ rots[k].rejected = "setWallpaper"
        /\ record.image # NoImage

\* C7 (as claimed): a rotation whose save failed after a successful apply
\* has still called triggerDownload.
C7_NotifyAfterSaveFailure ==
    \A k \in DOMAIN rots :
        (rots[k].pc = "done" /\ rots[k].applied /\ rots[k].rejected = "saveCurrentWallpaper")
            => "triggerDownload" \in Range(rots[k].calls)

\* C8 (as claimed): a rotation whose triggerDownload failed after apply and
\* save succeeded keeps the saved record and has notified the observer.
C8_NotifyFailureIgnored ==
    \A k \in DOMAIN rots :
        (rots[k].pc = "done" /\ rots[k].saved /\ rots[k].rejected = "triggerDownload")
            => /\ record = [image |-> rots[k].img, local_path |-> PathOf(rots[k].img)]
               /\ rots[k].observed = 1

\* C9 (as claimed): the observer is invoked exactly once for a rotation whose
\* apply succeeded and never for any other invocation.
C9_ObserverOncePerAppliedRotation ==
    \A k \in DOMAIN rots :
        /\ rots[k].pc = "done" => rots[k].observed = (IF rots[k].applied THEN 1 ELSE 0)
        /\ rots[k].pc # "done" => rots[k].observed = 0

\* C10: a rotation that reads settings with auto_change false or an empty
\* api_key calls nothing but getSettings, notifies nobody, and the step that
\* ends it clears the guard.
C10_DisabledCalls ==
    \A k \in DOMAIN rots :
        rots[k].sawEnabled = "disabled" =>
            /\ rots[k].pc = "done"
            /\ rots[k].calls = <<"getSettings">>
            /\ ~rots[k].applied /\ ~rots[k].saved /\ rots[k].observed = 0

C10_DisabledClearsGuard ==
    \A k \in DOMAIN rots :
        (rots[k].pc = "getSettings" /\ rots'[k].sawEnabled = "disabled")
            => (~isRunningRef' /\ record' = record /\ os' = os)

C10_DisabledRotationDoesNothing ==
    [](C10_DisabledCalls) /\ [][C10_DisabledClearsGuard]_vars

\* a tick of a timer that is still active found auto-change switched off
C10_Witness ==
    \E k \in DOMAIN rots :
        /\ rots[k].via = "tick"
        /\ rots[k].sawEnabled = "disabled"
        /\ rots[k].pc = "done"
        /\ ~settings.auto_change
        /\ timers # {}
        /\ ~isRunningRef

\* C11: startAutoChange whose settings read came back with auto_change false
\* or an empty api_key starts no timer and leaves intervalRef and the active
\* timers as they were.
C11_DisabledArmStep ==
    \A i \in ArmTasks :
        (tasks[i].st = "served" /\ ~Enabled(tasks[i].val) /\ tasks'[i].st = "done")
            => (timers' = timers /\ intervalRef' = intervalRef)

C11_DisabledArmIsNoOp == [][C11_DisabledArmStep]_vars

\* a startAutoChange call returned early while an earlier timer is active
C11_Witness ==
    \E i \in ArmTasks :
        /\ tasks[i].st = "done" /\ tasks[i].res = "noop"
        /\ ~Enabled(settings)
        /\ intervalRef # 0
        /\ \E t \in timers : t.id = intervalRef /\ t.id < i
\* the collaborators a rotation calls when nothing stops it
FullCalls ==
    <<"getSettings", "fetchRandomImage", "setWallpaper", "saveCurrentWallpaper",
      "triggerDownload">>

\* C12: a rotation that passed its settings check is not aborted by
\* stopAutoChange or by auto_change being switched off while it executes: with
\* no collaborator failing it goes on through apply, save, notify and the
\* observer, and it applies and saves the image it fetched.
C12_CutRotationGoesOn ==
    \A k \in DOMAIN rots :
        (rots[k].cut /\ rots[k].rejected = "") =>
            /\ rots[k].pc \in {"fetchRandomImage", "setWallpaper",
                                "saveCurrentWallpaper", "triggerDownload", "done"}
            /\ rots[k].pc # "done" => rots[k].pc = rots[k].calls[Len(rots[k].calls)]
            /\ rots[k].pc = "done" =>
                  /\ rots[k].calls = FullCalls
                  /\ rots[k].applied /\ rots[k].saved /\ rots[k].observed = 1

C12_CutRotationKeepsImage ==
    \A k \in DOMAIN rots :
        (rots[k].cut /\ Running(rots[k]) /\ rots'[k] # rots[k]) =>
            /\ rots[k].img # NoImage => rots'[k].img = rots[k].img
            /\ (rots[k].pc = "setWallpaper" /\ rots'[k].applied) => os' = rots[k].img
            /\ (rots[k].pc = "saveCurrentWallpaper" /\ rots'[k].saved) =>
                   record' = [image |-> rots[k].img, local_path |-> PathOf(rots[k].img)]

C12_DisarmDoesNotAbortRotation ==
    [](C12_CutRotationGoesOn) /\ [][C12_CutRotationKeepsImage]_vars

\* a rotation a tick started was disarmed on its way and has notified the
\* observer; no timer is left
C12_Witness ==
    \E k \in DOMAIN rots :
        /\ rots[k].cut /\ rots[k].via = "tick"
        /\ rots[k].pc = "done" /\ rots[k].observed = 1 /\ rots[k].rejected = ""
        /\ record.image = rots[k].img
        /\ timers = {} /\ everStopped
\* the multipliers as the specification lists them, in thousands of ms
ClaimedThousands == [minutes |-> 60, hours |-> 3600, days |-> 86400, weeks |-> 604800]

\* C13 (as claimed): for a unit of the table getIntervalMs is value times the
\* listed multiplier, positive and increasing in value, and the timer
\* startAutoChange starts runs with exactly that period.
C13_TimerPeriodIsProduct ==
    \A v \in 1..MaxStoredValue : \A u \in DOMAIN ClaimedThousands :
        /\ getIntervalMs(v, u) = Num(v * ClaimedThousands[u], 0)
        /\ Less(Num(0, 0), getIntervalMs(v, u))
        /\ Less(getIntervalMs(v, u), getIntervalMs(v + 1, u))
        /\ (settings.interval_value = v /\ settings.interval_unit = u) =>
               \A t \in timers : t.period = Num(v * ClaimedThousands[u], 0)

\* C14 (as claimed): with a stored interval_unit outside the table
\* startAutoChange starts no timer.
C14_InvalidUnitStartsNoTimer ==
    settings.interval_unit \notin DOMAIN multipliers => timers = {}
\* C15 (as claimed): a handleSave that went through has called disarm and
\* then, for settings that enable auto-change, arm; with auto_change off no
\* timer of the scheduler is left, with auto-change enabled exactly one timer
\* runs, at the cadence of the settings just saved.
C15_SaveRearmsScheduler ==
    (page.outcome = "saved" /\ page.pc = "idle" /\ settings = page.newSettings) =>
        /\ SubSeq(page.calls, 2, Len(page.calls)) =
              <<"stopAutoChange">> \o
              (IF Enabled(page.newSettings) THEN <<"startAutoChange">> ELSE <<>>)
        /\ ~page.newSettings.auto_change => timers = {}
        /\ Enabled(page.newSettings) =>
              /\ Cardinality(timers) = 1
              /\ \A t \in timers : t.period = Cadence(page.newSettings)

\* the mount effect has run to its end: its settings read was answered and,
\* when it called startAutoChange, that call has completed; nothing else
\* armed or disarmed the hook and the stored settings were not written
StartupCompleted ==
    /\ lifecycle = "mounted" /\ ~everStopped
    /\ Len(tasks) >= 1
    /\ \A i \in DOMAIN tasks : tasks[i].st = "done" /\ tasks[i].fresh
    /\ \/ Len(tasks) = 1 /\ tasks[1].res = "noop"
       \/ Len(tasks) = 2 /\ tasks[1].res = "spawned" /\ tasks[2].res # "rejected"

\* C16 (as claimed): once startup has completed a timer is active exactly
\* when the stored settings have auto_change on and an api_key, and it runs
\* with the cadence of the stored interval as its period.
C16_ArmedAtStartupIffEnabled ==
    StartupCompleted =>
        /\ (timers # {}) <=> Enabled(settings)
        /\ \A t \in timers : t.period = Cadence(settings)

\* the wallpaper changes that have changed the OS wallpaper and have not
\* reached their end: rotations of the hook and the handleSetWallpaper
ChangesPastApply ==
    {k \in DOMAIN rots : Running(rots[k]) /\ rots[k].applied}
    \cup (IF manual.pc \in {"saveCurrentWallpaper", "triggerDownload"} THEN {0} ELSE {})

\* C17 (as claimed): no wallpaper change runs its apply, save or notify
\* step between the apply and the end of another wallpaper change.
C17_ChangesDoNotInterleave == Cardinality(ChangesPastApply) <= 1

\* C20 (as claimed): when no wallpaper change is under way and none has
\* failed, the stored record holds the image the OS shows and the path that
\* image was stored under.
C20_RecordIsLastApplied ==
    ( /\ RunningSlots = {}
      /\ manual.pc \in {"idle", "done"}
      /\ \A k \in DOMAIN rots : rots[k].rejected = ""
      /\ ~manual.everFailed
      /\ os # NoImage )
    => record = [image |-> os, local_path |-> PathOf(os)]

\* C18: a rotation that ends at the settings check reports nothing; a
\* rotation ended by a rejected fetch, apply or save has logged exactly one
\* error and has ended.
C18_SilentOrReportedOnce ==
    \A k \in DOMAIN rots :
        /\ rots[k].sawEnabled = "disabled" => rots[k].reported = 0
        /\ rots[k].rejected \in {"fetchRandomImage", "setWallpaper", "saveCurrentWallpaper"} =>
              (rots[k].pc = "done" /\ rots[k].reported = 1)

\* a rotation whose save was rejected has ended with one error logged
C18_Witness ==
    \E k \in DOMAIN rots :
        /\ rots[k].rejected = "saveCurrentWallpaper"
        /\ rots[k].applied /\ ~rots[k].saved
        /\ rots[k].pc = "done" /\ rots[k].reported = 1

\* C19 (as claimed): a changeWallpaper call made from inside the observer
\* callback is not dropped by the guard.
C19_ObserverCallNotDropped ==
    \A k \in DOMAIN rots : rots[k].via = "observer" => rots[k].pc # "skipped"

\* C21 (as claimed): when a rotation has notified the observer, no rotation
\* is executing or has failed, and every loadInitialData call has run to
\* its end, HomePage shows the stored record: currentImage and localPath
\* are its image and path.
C21_HomeShowsStoredRecord ==
    ( /\ \E k \in DOMAIN rots : rots[k].pc = "done" /\ rots[k].observed = 1
      /\ RunningSlots = {}
      /\ \A k \in DOMAIN rots : rots[k].rejected = ""
      /\ manual.pc = "idle"
      /\ loads = <<>> )
    => /\ home.currentImage = record.image
       /\ home.localPath = record.local_path

\* the rotation in slot k waits for fetch_random_image or set_wallpaper
AwaitsFetchOrApply(k) == rots[k].pc \in {"fetchRandomImage", "setWallpaper"}

\* every rotation that started ends, and the guard is clear when it does
C22_StartedRotationEnds ==
    \A k \in 1..MaxSlots :
        Running(rots[k]) ~> (rots[k].pc = "done" /\ ~isRunningRef)

\* the guard is set while a rotation waits for the fetch or the apply
C22_GuardSetWhileAwaiting ==
    \A k \in 1..MaxSlots : AwaitsFetchOrApply(k) => isRunningRef

\* in a step that leaves a rotation waiting for the fetch or the apply no
\* other rotation starts: an invocation made then is dropped at the guard
C22_AwaitingStep ==
    \A k \in 1..MaxSlots :
        (AwaitsFetchOrApply(k) /\ rots'[k] = rots[k])
        => \A j \in 1..MaxSlots : ~Running(rots[j]) => ~Running(rots'[j])

\* C22: when every collaborator call returns or fails, every started
\* rotation ends with the guard cleared; while a fetch or apply call has
\* not returned the guard stays set and every invocation is dropped.
C22_GuardClearedOnceCallsReturn ==
    /\ C22_StartedRotationEnds
    /\ []C22_GuardSetWhileAwaiting
    /\ [][C22_AwaitingStep]_vars

\* a tick rotates again after an earlier rotation stored its image, and a
\* tick that came while that rotation waits for the apply was dropped
C22_Witness ==
    \E k, j \in 1..MaxSlots :
        /\ rots[k].pc = "setWallpaper" /\ rots[k].via = "tick"
        /\ record.image # NoImage
        /\ rots[j].pc = "skipped" /\ rots[j].via = "tick" /\ rots[j].overlapped
        /\ isRunningRef

\* a render of the mounted host: the effect of the hook runs again
RerenderStep ==
    /\ lifecycle = "mounted" /\ lifecycle' = "mounted"
    /\ Len(tasks') = Len(tasks) + 1
    /\ tasks'[Len(tasks')].kind = "mount"
    /\ settings' = settings

\* C23 (as claimed): a re-render of the mounted host, the stored settings
\* unchanged, neither cancels nor restarts the armed timer: the timer that
\* was running still runs and the hook still holds its id.
C23_RerenderStep == RerenderStep => (timers' = timers /\ intervalRef' = intervalRef)
C23_RerenderKeepsTimer == [][C23_RerenderStep]_vars

\* the commands of handleSave that arm or disarm
Commands == {"startAutoChange", "stopAutoChange"}

\* after save_settings rejected, handleSave has called nothing else, the
\* form still has unsaved changes and the Save button is released
C24_AfterRejectedSave ==
    page.rejected = "saveSettings"
    => /\ page.calls = <<"saveSettings">>
       /\ page.pc = "idle"
       /\ page.hasChanges
       /\ ~page.isSaving

\* the step in which save_settings rejects leaves the stored settings and
\* the timer alone and issues no call; the step in which handleSave calls
\* a command is the one in which the store took the new settings
C24_SaveStep ==
    /\ (page.rejected # "saveSettings" /\ page'.rejected = "saveSettings")
       => /\ settings' = settings
          /\ timers' = timers /\ intervalRef' = intervalRef
          /\ tasks' = tasks
    /\ (Len(page'.calls) > Len(page.calls) /\ page'.calls[Len(page'.calls)] \in Commands)
       => /\ page.pc = "saveSettings"
          /\ settings' = page.newSettings

\* C24: when saveSettings fails in handleSave neither startAutoChange nor
\* stopAutoChange is invoked, hasChanges stays true and isSaving returns to
\* false; arm or disarm is invoked only once the new settings are stored.
C24_FailedSaveCallsNoCommand == []C24_AfterRejectedSave /\ [][C24_SaveStep]_vars

\* save_settings rejected while the form differs from the stored settings
C24_Witness ==
    /\ page.rejected = "saveSettings"
    /\ page.hasChanges /\ ~page.isSaving
    /\ page.newSettings # settings
====
